---- MODULE Spec2Model ----
(***************************************************************************)
(* A model of lib/iris_ncobj.py: the mimic classes that wrap an ncobj      *)
(* Group so that it reads like a netCDF4.Dataset.                          *)
(*                                                                         *)
(* The wrapped ncobj graph is a heap of mutable objects (dimensions,       *)
(* variables, groups), held in the variable `graph`.  A mimic is a record  *)
(* holding a reference to the object it wraps; what a mimic method reads   *)
(* from its ncobj it reads from the heap at the time of the call, so the   *)
(* methods take the heap as their first parameter.                         *)
(***************************************************************************)
EXTENDS Integers, Sequences, FiniteSets, TLC

(***************************************************************************)
(* The universe of ncobj objects.  An object is identified by its name,    *)
(* which the code never changes.                                           *)
(***************************************************************************)
Dims == {"x", "y", "t"}
Vars == {"temp", "depth"}
Groups == {"root", "sub", "leaf"}
\* Attribute names: any strings; these two are also the names close() reads.
AttrNames == {"file_path", "file_mode"}
AttrNodes == Vars \cup Groups

\* Largest dimension length and data array length modelled.
MaxLength == 2
MaxDataLen == 2
\* Number of mutations of the wrapped graph in one behaviour.
MaxMutations == 2

Lengths == 0..MaxLength
\* Attribute values: the code passes them on and never inspects them.
AttrValues == {"a", "b"}

(***************************************************************************)
(* Python values.                                                          *)
(***************************************************************************)
None == [cls |-> "NoneType"]
Return(v) == [kind |-> "return", value |-> v]
Raise(e) == [kind |-> "raise", value |-> e]

\* A reference to an ncobj object.
Ref(kind, id) == [cls |-> kind, id |-> id]

\* Python strings that the code inspects, as sequences of characters.
ModeR == <<"r">>
ModeW == <<"w">>
ModeA == <<"a">>
ModeRPlus == <<"r", "+">>
FileModes == {ModeR, ModeW, ModeA, ModeRPlus}
FilePaths == {"out.nc"}

\* `c in s` for a character c and a string s.
CharIn(c, s) == \E i \in 1..Len(s) : s[i] = c

(***************************************************************************)
(* Arrays (the `data` of a variable): a 0-dimensional array holds one      *)
(* value, a 1-dimensional one a sequence of values.                        *)
(***************************************************************************)
Array0(v) == [ndim |-> 0, elems |-> <<v>>]
Array1(s) == [ndim |-> 1, elems |-> s]
Iota(n) == [i \in 1..n |-> 10 + i]
DataValues == {Array0(7)} \cup {Array1(Iota(n)) : n \in 0..MaxDataLen}

\* An index: an integer (Python's, 0-based, negative from the end) or a
\* slice start:stop.
IntKey(i) == [cls |-> "int", i |-> i]
SliceKey(a, b) == [cls |-> "slice", start |-> a, stop |-> b]
Keys ==
  {IntKey(i) : i \in -1..MaxDataLen}
    \cup {SliceKey(a, b) : a \in 0..1, b \in 0..MaxDataLen}

Min(a, b) == IF a < b THEN a ELSE b

\* data[keys] for the array library's own indexing.
ArrayGetItem(a, key) ==
  LET n == Len(a.elems) IN
  IF a.ndim = 0
    THEN Raise("IndexError")
    ELSE IF key.cls = "int"
      THEN LET i == IF key.i < 0 THEN key.i + n ELSE key.i IN
           IF i >= 0 /\ i < n THEN Return(Array0(a.elems[i + 1]))
                              ELSE Raise("IndexError")
      ELSE LET lo == Min(key.start, n)
               hi == Min(key.stop, n) IN
           Return(Array1(IF lo < hi THEN SubSeq(a.elems, lo + 1, hi) ELSE <<>>))

(***************************************************************************)
(* The wrapped graph.                                                      *)
(***************************************************************************)
VARIABLES
  graph,    \* the ncobj heap: the fields of every dimension, variable, group
  proxy,    \* the mimic the caller holds, or None
  built,    \* the heap as it was when `proxy` was constructed
  result,   \* the outcome of the latest call made through the mimic API
  files,    \* the file system: the I/O events performed so far
  nmut      \* number of mutations of the graph made so far

vars == <<graph, proxy, built, result, files, nmut>>

Attr(n, v) == [name |-> n, value |-> v]

\* The names of a sequence of attributes.
AttrNamesOf(attrs) == [i \in 1..Len(attrs) |-> attrs[i].name]

Range(s) == {s[i] : i \in 1..Len(s)}

BaseGraph ==
  [ length     |-> [d \in Dims |-> CASE d = "x" -> 2 [] d = "y" -> 0 [] OTHER -> 1],
    unlimited  |-> [d \in Dims |-> d = "t"],
    data       |-> [v \in Vars |-> IF v = "temp" THEN Array1(Iota(MaxDataLen))
                                                 ELSE Array0(7)],
    attributes |-> [n \in AttrNodes |->
                      CASE n = "temp" -> <<Attr("file_mode", "a")>>
                        [] n = "sub"  -> <<Attr("file_path", "b")>>
                        [] OTHER      -> <<>>],
    dimensions |-> [g \in Groups |-> IF g = "root" THEN <<"y", "x">> ELSE <<>>],
    variables  |-> [g \in Groups |-> IF g = "root" THEN <<"temp", "depth">> ELSE <<>>],
    groups     |-> [g \in Groups |-> IF g = "root" THEN <<"sub">> ELSE <<>>] ]

(***************************************************************************)
(* The mutation API of the wrapped graph (ncobj's own, used by the caller, *)
(* never by the mimics).  Each collection of a group keeps its declaration *)
(* order and holds an object at most once; an object lives in at most one  *)
(* group; a group is never its own descendant.                             *)
(***************************************************************************)
Remove(s, x) == SelectSeq(s, LAMBDA e : e # x)

PlacedDims(h) == UNION {Range(h.dimensions[g]) : g \in Groups}
PlacedVars(h) == UNION {Range(h.variables[g]) : g \in Groups}
PlacedGroups(h) == UNION {Range(h.groups[g]) : g \in Groups}

RECURSIVE Descendants(_, _)
Descendants(h, g) ==
  {g} \cup UNION {Descendants(h, c) : c \in Range(h.groups[g])}

AddDimensionOp(h, g, d) == [h EXCEPT !.dimensions[g] = Append(@, d)]
RemoveDimensionOp(h, g, d) == [h EXCEPT !.dimensions[g] = Remove(@, d)]
AddVariableOp(h, g, v) == [h EXCEPT !.variables[g] = Append(@, v)]
RemoveVariableOp(h, g, v) == [h EXCEPT !.variables[g] = Remove(@, v)]
AddGroupOp(h, g, c) == [h EXCEPT !.groups[g] = Append(@, c)]
RemoveGroupOp(h, g, c) == [h EXCEPT !.groups[g] = Remove(@, c)]
SetLengthOp(h, d, n) == [h EXCEPT !.length[d] = n]
SetUnlimitedOp(h, d, b) == [h EXCEPT !.unlimited[d] = b]
SetDataOp(h, v, a) == [h EXCEPT !.data[v] = a]
\* Setting an attribute replaces the value of an attribute of that name, or
\* appends a new attribute.
SetAttrOp(h, node, n, v) ==
  LET attrs == h.attributes[node] IN
  [h EXCEPT !.attributes[node] =
     IF \E i \in 1..Len(attrs) : attrs[i].name = n
       THEN [i \in 1..Len(attrs) |->
               IF attrs[i].name = n THEN Attr(n, v) ELSE attrs[i]]
       ELSE Append(attrs, Attr(n, v))]

\* Every graph one mutation away from h.
Mutations(h) ==
  {AddDimensionOp(h, g, d) : g \in Groups, d \in Dims \ PlacedDims(h)}
    \cup UNION {{RemoveDimensionOp(h, g, d) : d \in Range(h.dimensions[g])} : g \in Groups}
    \cup {AddVariableOp(h, g, v) : g \in Groups, v \in Vars \ PlacedVars(h)}
    \cup UNION {{RemoveVariableOp(h, g, v) : v \in Range(h.variables[g])} : g \in Groups}
    \cup UNION {{AddGroupOp(h, g, c) :
                   c \in {c \in Groups \ PlacedGroups(h) : g \notin Descendants(h, c)}}
                : g \in Groups}
    \cup UNION {{RemoveGroupOp(h, g, c) : c \in Range(h.groups[g])} : g \in Groups}
    \cup {SetLengthOp(h, d, n) : d \in Dims, n \in Lengths}
    \cup {SetUnlimitedOp(h, d, b) : d \in Dims, b \in BOOLEAN}
    \cup {SetDataOp(h, v, a) : v \in Vars, a \in DataValues}
    \cup UNION {{SetAttrOp(h, node, n, v) : n \in AttrNames, v \in AttrValues}
                : node \in AttrNodes}

(***************************************************************************)
(* class Nc4ComponentMimic                                                 *)
(***************************************************************************)
\* __init__(self, nco_component, parent_grp=None).  The parent mimic is
\* represented by the reference to the group it wraps.
Nc4ComponentMimic(class, nco_component, parent_grp) ==
  [cls |-> class, ncobj |-> nco_component, _parent_group_ncobj |-> parent_grp]

\* The `name` property.
name(p) == p.ncobj.id

\* group()
group(p) == p._parent_group_ncobj

(***************************************************************************)
(* class DimensionMimic                                                    *)
(***************************************************************************)
DimensionMimic(dim, parent_grp) ==
  Nc4ComponentMimic("DimensionMimic", dim, parent_grp)

\* Fault variant of isunlimited: only the dimension's own flag.
isunlimitedFlagOnly(h, p) == h.unlimited[p.ncobj.id]

isunlimited(h, p) == h.unlimited[p.ncobj.id] \/ h.length[p.ncobj.id] = 0

\* Fault variant of size: the size the dimension had when the mimic was
\* constructed.
sizeAtConstruction(h, p) ==
  IF built.unlimited[p.ncobj.id] \/ built.length[p.ncobj.id] = 0
    THEN 0 ELSE built.length[p.ncobj.id]

size(h, p) == IF isunlimited(h, p) THEN 0 ELSE h.length[p.ncobj.id]

\* __len__
len(h, p) == size(h, p)

(***************************************************************************)
(* class Nc4ComponentAttrsMimic                                            *)
(***************************************************************************)
\* _name_as_string: an attribute object has a name, a string is itself.
_name_as_string(obj_or_string) ==
  IF "name" \in DOMAIN obj_or_string THEN obj_or_string.name ELSE obj_or_string

ncattrs(h, p) ==
  LET attrs == h.attributes[p.ncobj.id] IN
  [i \in 1..Len(attrs) |-> _name_as_string(attrs[i])]

\* Fault variant of getncattr: the value of the node's first attribute.
getncattrFirst(h, p, attr_name) ==
  LET attrs == h.attributes[p.ncobj.id] IN
  IF attr_name \in Range(AttrNamesOf(attrs))
    THEN Return(attrs[1].value)
    ELSE Raise("AttributeError")

getncattr(h, p, attr_name) ==
  LET attrs == h.attributes[p.ncobj.id] IN
  IF attr_name \in Range(AttrNamesOf(attrs))
    THEN Return((CHOOSE a \in Range(attrs) : a.name = attr_name).value)
    ELSE Raise("AttributeError")

\* Fault variant of __getattr__: None for a name that is no attribute.
__getattr__OrNone(h, p, attr_name) ==
  LET r == getncattr(h, p, attr_name) IN
  IF r.kind = "raise" THEN Return(None) ELSE r

__getattr__(h, p, attr_name) ==
  getncattr(h, p, attr_name)

(***************************************************************************)
(* class VariableMimic                                                     *)
(***************************************************************************)
VariableMimic(var, parent_grp) ==
  Nc4ComponentMimic("VariableMimic", var, parent_grp)

ndim(h, p) == h.data[p.ncobj.id].ndim

\* Fault variant of __getitem__: no case for 0-dimensional data.
__getitem__Delegating(h, p, keys) == ArrayGetItem(h.data[p.ncobj.id], keys)

__getitem__(h, p, keys) ==
  IF ndim(h, p) = 0
    THEN Return(h.data[p.ncobj.id])
    ELSE ArrayGetItem(h.data[p.ncobj.id], keys)

(***************************************************************************)
(* class GroupMimic                                                        *)
(***************************************************************************)
\* OrderedDict(pairs): a later pair of a key already present replaces the
\* value and keeps the key's place.
RECURSIVE OrderedDictFrom(_, _)
OrderedDictFrom(d, pairs) ==
  IF pairs = <<>> THEN d
  ELSE LET kv == Head(pairs) IN
       OrderedDictFrom(
         IF \E i \in 1..Len(d) : d[i].key = kv.key
           THEN [i \in 1..Len(d) |-> IF d[i].key = kv.key THEN kv ELSE d[i]]
           ELSE Append(d, kv),
         Tail(pairs))

\* Fault variant of OrderedDict: a plain dict, whose keys do not keep the
\* order of insertion.
PlainDict(pairs) ==
  LET d == OrderedDictFrom(<<>>, pairs) IN
  [i \in 1..Len(d) |-> d[Len(d) + 1 - i]]

OrderedDict(pairs) == OrderedDictFrom(<<>>, pairs)

Item(k, v) == [key |-> k, value |-> v]

\* list(d.keys()) and d[k]
DictKeys(d) == [i \in 1..Len(d) |-> d[i].key]
DictGet(d, k) == (CHOOSE e \in Range(d) : e.key = k).value

RECURSIVE GroupMimic(_, _, _)
GroupMimic(h, grp, parent_grp) ==
  LET self == Nc4ComponentMimic("GroupMimic", grp, parent_grp)
      ds == h.dimensions[grp.id]
      vs == h.variables[grp.id]
      gs == h.groups[grp.id]
  IN [cls |-> self.cls, ncobj |-> self.ncobj,
      _parent_group_ncobj |-> self._parent_group_ncobj,
      dimensions |-> OrderedDict(
        [i \in 1..Len(ds) |->
           Item(ds[i], DimensionMimic(Ref("Dimension", ds[i]), self.ncobj))]),
      variables |-> OrderedDict(
        [i \in 1..Len(vs) |->
           Item(vs[i], VariableMimic(Ref("Variable", vs[i]), self.ncobj))]),
      groups |-> OrderedDict(
        [i \in 1..Len(gs) |->
           Item(gs[i], GroupMimic(h, Ref("Group", gs[i]), self.ncobj))])]

DictValues(d) == {d[i].value : i \in 1..Len(d)}

\* A mimic and every mimic below it.
RECURSIVE Mimics(_)
Mimics(p) ==
  IF p.cls = "GroupMimic"
    THEN {p} \cup DictValues(p.dimensions) \cup DictValues(p.variables)
           \cup UNION {Mimics(q) : q \in DictValues(p.groups)}
    ELSE {p}

(***************************************************************************)
(* Attribute access on a mimic object, as Python resolves it: the          *)
(* instance's and the classes' own members first, __getattr__ (where the   *)
(* class has one) only for a name that is none of them.                    *)
(***************************************************************************)
Members(p) ==
  {"ncobj", "_parent_group_ncobj", "name", "group"}
    \cup CASE p.cls = "DimensionMimic" -> {"size", "isunlimited"}
           [] p.cls = "VariableMimic" ->
                {"ncattrs", "getncattr", "dtype", "datatype", "dimensions",
                 "shape", "ndim", "size"}
           [] p.cls = "GroupMimic" ->
                {"ncattrs", "getncattr", "dimensions", "variables", "groups"}
           [] p.cls = "Nc4DatasetMimic" ->
                {"ncattrs", "getncattr", "_filepath", "_file_mode", "close"}

HasGetattr(p) == p.cls \in {"VariableMimic", "GroupMimic", "Nc4DatasetMimic"}

Member(p, n) == [cls |-> "member", of |-> p.cls, name |-> n]

getattr(h, p, n) ==
  IF n \in Members(p) THEN Return(Member(p, n))
  ELSE IF HasGetattr(p) THEN __getattr__(h, p, n)
  ELSE Raise("AttributeError")

\* Names read through the mimic API: the attribute names, a name that is a
\* member of some mimic classes only, and a name no node has as attribute.
PropNames == AttrNames \cup {"dimensions", "title"}

(***************************************************************************)
(* class Nc4DatasetMimic                                                   *)
(***************************************************************************)
\* A call's arguments: the positional ones and the keyword ones.
NoKw == <<>>
Without(kw, names) == [k \in DOMAIN kw \ names |-> kw[k]]

\* Nc4ComponentMimic.__init__(self, nco_component, parent_grp=None) called
\* with *args, **kwargs: Python's binding of arguments to parameters.
BindComponentInit(args, kwargs) ==
  IF \/ Len(args) > 2
     \/ ~(DOMAIN kwargs \subseteq {"nco_component", "parent_grp"})
     \/ (Len(args) >= 1 /\ "nco_component" \in DOMAIN kwargs)
     \/ (Len(args) >= 2 /\ "parent_grp" \in DOMAIN kwargs)
     \/ (Len(args) = 0 /\ "nco_component" \notin DOMAIN kwargs)
    THEN Raise("TypeError")
    ELSE Return(
      [nco_component |-> IF Len(args) >= 1 THEN args[1] ELSE kwargs["nco_component"],
       parent_grp |-> IF Len(args) >= 2 THEN args[2]
                      ELSE IF "parent_grp" \in DOMAIN kwargs THEN kwargs["parent_grp"]
                      ELSE None])

\* Nc4DatasetMimic(file_path=None, file_mode='r', *args, **kwargs):
\* super(GroupMimic, self).__init__ is Nc4ComponentMimic.__init__, so
\* GroupMimic.__init__ does not run.
Nc4DatasetMimic(pos, kw) ==
  IF \/ (Len(pos) >= 1 /\ "file_path" \in DOMAIN kw)
     \/ (Len(pos) >= 2 /\ "file_mode" \in DOMAIN kw)
    THEN Raise("TypeError")
    ELSE
      LET file_path == IF Len(pos) >= 1 THEN pos[1]
                       ELSE IF "file_path" \in DOMAIN kw THEN kw["file_path"]
                       ELSE None
          file_mode == IF Len(pos) >= 2 THEN pos[2]
                       ELSE IF "file_mode" \in DOMAIN kw THEN kw["file_mode"]
                       ELSE ModeR
          args == IF Len(pos) > 2 THEN SubSeq(pos, 3, Len(pos)) ELSE <<>>
          kwargs == Without(kw, {"file_path", "file_mode"})
          base == BindComponentInit(args, kwargs)
      IN IF base.kind = "raise" THEN base
         ELSE Return(
           [cls |-> "Nc4DatasetMimic",
            ncobj |-> base.value.nco_component,
            _parent_group_ncobj |-> base.value.parent_grp,
            _filepath |-> file_path,
            _file_mode |-> file_mode])

\* The names bound where close() runs: its parameter and the module's
\* globals.
CloseScope ==
  {"self", "OrderedDict", "nc", "ncobj_write", "Nc4ComponentMimic",
   "_name_as_string", "DimensionMimic", "Nc4ComponentAttrsMimic",
   "VariableMimic", "GroupMimic", "Nc4DatasetMimic",
   "fake_readable_nc4python_dataset", "fake_writeable_nc4python_dataset"}

OpenEvent(filename, mode) == [ev |-> "open", filename |-> filename, mode |-> mode]
WriteEvent(filename, root, ok) ==
  [ev |-> "ncobj_write", filename |-> filename, root |-> root, ok |-> ok]
CloseEvent(filename) == [ev |-> "close", filename |-> filename]

\* with nc.Dataset(filename=..., mode=..., **kwargs) as ds:
\*     ncobj_write(ds, self.ncobj)
\* createOk, encOk: whether the file library and the encoder succeed.
WithDataset(filename, mode, root, createOk, encOk) ==
  IF ~createOk
    THEN [out |-> Raise("IOError"), events |-> <<>>]
    ELSE [out |-> IF encOk THEN Return(None) ELSE Raise("EncoderError"),
          events |-> <<OpenEvent(filename, mode),
                       WriteEvent(filename, root, encOk),
                       CloseEvent(filename)>>]

\* The arguments of the nc.Dataset call, evaluated left to right.
DatasetCall(h, self, createOk, encOk) ==
  LET fp == getattr(h, self, "file_path") IN
  IF fp.kind = "raise" THEN [out |-> fp, events |-> <<>>]
  ELSE LET fm == getattr(h, self, "file_mode") IN
    IF fm.kind = "raise" THEN [out |-> fm, events |-> <<>>]
    ELSE IF "kwargs" \notin CloseScope
      THEN [out |-> Raise("NameError"), events |-> <<>>]
      ELSE WithDataset(fp.value, fm.value, self.ncobj, createOk, encOk)

\* Fault variant of close: no test of the file mode.
closeAnyMode(h, self, createOk, encOk) == DatasetCall(h, self, createOk, encOk)

close(h, self, createOk, encOk) ==
  IF CharIn("w", self._file_mode)
    THEN DatasetCall(h, self, createOk, encOk)
    ELSE [out |-> Return(None), events |-> <<>>]

fake_readable_nc4python_dataset(ncobj_group) ==
  Nc4DatasetMimic(<<ncobj_group>>, NoKw)

fake_writeable_nc4python_dataset(file_path, file_mode) ==
  Nc4DatasetMimic(<<>>, [file_path |-> file_path, file_mode |-> file_mode])

(***************************************************************************)
(* The state machine.  A caller mutates the wrapped graph through ncobj,   *)
(* constructs mimics, and calls their methods; `result` records the        *)
(* latest call: the method, the mimic it was called on, its arguments,     *)
(* its outcome and the I/O it performed.                                   *)
(***************************************************************************)
Call(op, self, args, out, events) ==
  [op |-> op, self |-> self, args |-> args, out |-> out, events |-> events]

NoCall == Call("none", None, <<>>, Return(None), <<>>)

Init ==
  /\ graph = BaseGraph
  /\ proxy = None
  /\ built = BaseGraph
  /\ result = NoCall
  /\ files = <<>>
  /\ nmut = 0

\* The caller's view of the graph differs from the base by at most one
\* mutation; the graph is then only read.
InitApi ==
  /\ graph \in {BaseGraph} \cup Mutations(BaseGraph)
  /\ proxy = None
  /\ built = graph
  /\ result = NoCall
  /\ files = <<>>
  /\ nmut = 0

Mutate(h) ==
  /\ nmut < MaxMutations
  /\ h # graph
  /\ graph' = h
  /\ nmut' = nmut + 1
  /\ UNCHANGED <<proxy, built, result, files>>

AddDimension ==
  \E g \in Groups, d \in Dims \ PlacedDims(graph) : Mutate(AddDimensionOp(graph, g, d))

RemoveDimension ==
  \E g \in Groups : \E d \in Range(graph.dimensions[g]) :
    Mutate(RemoveDimensionOp(graph, g, d))

AddVariable ==
  \E g \in Groups, v \in Vars \ PlacedVars(graph) : Mutate(AddVariableOp(graph, g, v))

RemoveVariable ==
  \E g \in Groups : \E v \in Range(graph.variables[g]) :
    Mutate(RemoveVariableOp(graph, g, v))

AddGroup ==
  \E g \in Groups : \E c \in Groups \ PlacedGroups(graph) :
    /\ g \notin Descendants(graph, c)
    /\ Mutate(AddGroupOp(graph, g, c))

RemoveGroup ==
  \E g \in Groups : \E c \in Range(graph.groups[g]) :
    Mutate(RemoveGroupOp(graph, g, c))

SetLength == \E d \in Dims, n \in Lengths : Mutate(SetLengthOp(graph, d, n))

SetUnlimited == \E d \in Dims, b \in BOOLEAN : Mutate(SetUnlimitedOp(graph, d, b))

SetAttr ==
  \E node \in AttrNodes, n \in AttrNames, v \in AttrValues :
    Mutate(SetAttrOp(graph, node, n, v))

\* GroupMimic(grp)
NewGroupMimic ==
  \E g \in Groups :
    LET m == GroupMimic(graph, Ref("Group", g), None) IN
    /\ proxy' = m
    /\ built' = graph
    /\ result' = Call("GroupMimic", None, <<Ref("Group", g)>>, Return(m), <<>>)
    /\ UNCHANGED <<graph, files, nmut>>

\* A constructor call that returns gives the caller a new mimic; one that
\* raises leaves the caller with what it had.
Construct(op, args, out) ==
  /\ proxy' = IF out.kind = "return" THEN out.value ELSE proxy
  /\ built' = IF out.kind = "return" THEN graph ELSE built
  /\ result' = Call(op, None, args, out, <<>>)
  /\ UNCHANGED <<graph, files, nmut>>

\* Nc4DatasetMimic(file_path, file_mode, grp)
NewNc4DatasetMimic ==
  \E fp \in FilePaths, fm \in FileModes, g \in Groups :
    LET args == <<fp, fm, Ref("Group", g)>> IN
    Construct("Nc4DatasetMimic", args, Nc4DatasetMimic(args, NoKw))

FakeReadable ==
  \E g \in Groups :
    Construct("fake_readable_nc4python_dataset", <<Ref("Group", g)>>,
              fake_readable_nc4python_dataset(Ref("Group", g)))

FakeWriteable ==
  \E fp \in FilePaths, fm \in FileModes :
    Construct("fake_writeable_nc4python_dataset", <<fp, fm>>,
              fake_writeable_nc4python_dataset(fp, fm))

\* A method call that only reads.
Read(op, self, args, out) ==
  /\ result' = Call(op, self, args, out, <<>>)
  /\ UNCHANGED <<graph, proxy, built, files, nmut>>

DimMimics == {p \in Mimics(proxy) : p.cls = "DimensionMimic"}
VarMimics == {p \in Mimics(proxy) : p.cls = "VariableMimic"}
AttrsMimics == {p \in Mimics(proxy) : HasGetattr(p)}

ReadSize == \E p \in DimMimics : Read("size", p, <<>>, Return(size(graph, p)))

ReadLen == \E p \in DimMimics : Read("__len__", p, <<>>, Return(len(graph, p)))

ReadIsUnlimited ==
  \E p \in DimMimics : Read("isunlimited", p, <<>>, Return(isunlimited(graph, p)))

ReadNcAttrs == \E p \in AttrsMimics : Read("ncattrs", p, <<>>, Return(ncattrs(graph, p)))

ReadGetNcAttr ==
  \E p \in AttrsMimics, n \in PropNames :
    Read("getncattr", p, <<n>>, getncattr(graph, p, n))

ReadGetAttr ==
  \E p \in AttrsMimics, n \in PropNames :
    Read("getattr", p, <<n>>, getattr(graph, p, n))

ReadGetItem ==
  \E p \in VarMimics, k \in Keys :
    Read("__getitem__", p, <<k>>, __getitem__(graph, p, k))

Close ==
  /\ proxy.cls = "Nc4DatasetMimic"
  /\ \E createOk \in BOOLEAN, encOk \in BOOLEAN :
       LET r == close(graph, proxy, createOk, encOk) IN
       /\ result' = Call("close", proxy, <<>>, r.out, r.events)
       /\ files' = files \o r.events
       /\ UNCHANGED <<graph, proxy, built, nmut>>

\* Mutation of the wrapped graph around the construction of a group mimic.
Next ==
  \/ AddDimension \/ RemoveDimension
  \/ AddVariable \/ RemoveVariable
  \/ AddGroup \/ RemoveGroup
  \/ SetLength \/ SetUnlimited \/ SetAttr
  \/ NewGroupMimic

Spec == Init /\ [][Next]_vars

\* The mimic API over a graph that is only read.
NextApi ==
  \/ NewGroupMimic \/ NewNc4DatasetMimic \/ FakeReadable \/ FakeWriteable
  \/ ReadSize \/ ReadLen \/ ReadIsUnlimited
  \/ ReadNcAttrs \/ ReadGetNcAttr \/ ReadGetAttr \/ ReadGetItem
  \/ Close

SpecApi == InitApi /\ [][NextApi]_vars

(***************************************************************************)
(* The claims.                                                             *)
(***************************************************************************)
GroupMimicsOf(p) == {q \in Mimics(p) : q.cls = "GroupMimic"}

\* What the spec says a dimension's size and unlimited flag are, in heap h.
SpecUnlimited(h, d) == h.unlimited[d] \/ h.length[d] = 0
SpecSize(h, d) == IF h.unlimited[d] \/ h.length[d] = 0 THEN 0 ELSE h.length[d]

\* What the spec says an attribute lookup gives, in heap h.
SpecLookup(h, node, n) ==
  LET attrs == h.attributes[node] IN
  IF \E i \in 1..Len(attrs) : attrs[i].name = n
    THEN Return(attrs[CHOOSE i \in 1..Len(attrs) : attrs[i].name = n].value)
    ELSE Raise("AttributeError")

\* The keys of a group mimic's three mappings are the names of the group's
\* collections, in order, as they were in heap h.
KeysAre(q, h) ==
  /\ DictKeys(q.dimensions) = h.dimensions[q.ncobj.id]
  /\ DictKeys(q.variables) = h.variables[q.ncobj.id]
  /\ DictKeys(q.groups) = h.groups[q.ncobj.id]

\* C1: a GroupMimic constructed over a group g has, for g and for every
\* subgroup below it, mappings `dimensions`, `variables` and `groups` whose
\* keys are exactly the names of the group's dimensions, variables and
\* subgroups in declaration order (as they were at construction), and each
\* key maps to a mimic that wraps the child of that name.
C1_MappingsMirrorGroup ==
  proxy.cls = "GroupMimic" =>
    \A q \in GroupMimicsOf(proxy) :
      /\ KeysAre(q, built)
      /\ \A i \in 1..Len(q.dimensions) :
           q.dimensions[i].value =
             [cls |-> "DimensionMimic",
              ncobj |-> Ref("Dimension", q.dimensions[i].key),
              _parent_group_ncobj |-> q.ncobj]
      /\ \A i \in 1..Len(q.variables) :
           q.variables[i].value =
             [cls |-> "VariableMimic",
              ncobj |-> Ref("Variable", q.variables[i].key),
              _parent_group_ncobj |-> q.ncobj]
      /\ \A i \in 1..Len(q.groups) :
           /\ q.groups[i].value.cls = "GroupMimic"
           /\ q.groups[i].value.ncobj = Ref("Group", q.groups[i].key)
           /\ q.groups[i].value._parent_group_ncobj = q.ncobj

\* C1 witness: a mimic over a group with two dimensions, whose subgroup
\* has children of its own.
C1_Witness ==
  /\ proxy.cls = "GroupMimic"
  /\ Len(proxy.dimensions) >= 2
  /\ Len(proxy.variables) >= 2
  /\ \E q \in DictValues(proxy.groups) :
       Len(q.dimensions) >= 1 \/ Len(q.groups) >= 1

\* C2: fake_readable_nc4python_dataset(g) returns an Nc4DatasetMimic that
\* wraps g, is read-only, and has `dimensions`, `variables` and `groups`
\* populated as a GroupMimic over g would.
C2_ReadableDatasetIsGroupProxy ==
  result.op = "fake_readable_nc4python_dataset" =>
    /\ result.out.kind = "return"
    /\ result.out.value.cls = "Nc4DatasetMimic"
    /\ result.out.value.ncobj = result.args[1]
    /\ result.out.value._file_mode = ModeR
    /\ {"dimensions", "variables", "groups"} \subseteq DOMAIN result.out.value
    /\ KeysAre(result.out.value, built)

\* The I/O events of one kind in a call's events.
EventsOf(events, ev) == SelectSeq(events, LAMBDA e : e.ev = ev)

\* C3: close() on a dataset mimic whose mode indicates writing opens one
\* file handle at the configured path with the configured mode and invokes
\* the encoder exactly once, with that handle and the wrapped graph.
C3_WriteCloseEncodesOnce ==
  (result.op = "close" /\ CharIn("w", result.self._file_mode)) =>
    /\ EventsOf(result.events, "open") =
         <<OpenEvent(result.self._filepath, result.self._file_mode)>>
    /\ Len(EventsOf(result.events, "ncobj_write")) = 1
    /\ EventsOf(result.events, "ncobj_write")[1].root = result.self.ncobj

\* C4: close() on a read-only dataset mimic returns normally, opens no
\* handle, does not invoke the encoder, and leaves the file system and the
\* wrapped graph as they were; so after any number of such calls.
C4_ReadCloseIsNoOp ==
  (result.op = "close" /\ result.self._file_mode = ModeR) =>
    /\ result.out.kind = "return"
    /\ result.out.value = None
    /\ result.events = <<>>
    /\ files = <<>>
    /\ graph = built
    /\ proxy = result.self

\* C4 witness: a read-only dataset mimic has been closed.
C4_Witness ==
  /\ result.op = "close"
  /\ result.self._file_mode = ModeR
  /\ result.self._filepath \in FilePaths
  /\ result.out.kind = "return"

\* C5: size and len() of a dimension mimic are 0 when the dimension is
\* unlimited or has length 0, and its length otherwise; isunlimited() is
\* true exactly in the cases where the size is forced to 0.
C5_DimensionSize ==
  /\ result.op \in {"size", "__len__"} =>
       result.out.value = SpecSize(graph, result.self.ncobj.id)
  /\ result.op = "isunlimited" =>
       result.out.value = SpecUnlimited(graph, result.self.ncobj.id)

\* C5 witness: isunlimited() was read on a zero-length dimension that is not
\* marked unlimited.
C5_Witness ==
  /\ result.op = "isunlimited"
  /\ graph.length[result.self.ncobj.id] = 0
  /\ ~graph.unlimited[result.self.ncobj.id]
  /\ result.out.value

\* C6: an indexed read of a variable mimic whose data has 0 dimensions
\* returns the data itself whatever the index; with 1 or more dimensions it
\* returns what the data array gives for that index; the data is unchanged.
C6_IndexedRead ==
  result.op = "__getitem__" =>
    LET a == graph.data[result.self.ncobj.id] IN
    /\ a.ndim = 0 => (result.out.kind = "return" /\ result.out.value = a)
    /\ a.ndim > 0 =>
         LET r == ArrayGetItem(a, result.args[1]) IN
         /\ result.out.kind = r.kind
         /\ result.out.value = r.value
    /\ graph = built

\* C6 witness: a 0-dimensional variable was read with an integer index and
\* gave its scalar.
C6_Witness ==
  /\ result.op = "__getitem__"
  /\ graph.data[result.self.ncobj.id].ndim = 0
  /\ result.args[1].cls = "int"
  /\ result.out.kind = "return"

\* C7: getncattr(n) of a variable, group or dataset mimic, for a name n the
\* wrapped node has, returns the value stored for n; ncattrs() gives
\* exactly the names of the node's attributes; the graph and the mimic are
\* unchanged.
C7_AttributeRoundTrip ==
  /\ result.op = "getncattr" =>
       LET attrs == graph.attributes[result.self.ncobj.id] IN
       /\ \A i \in 1..Len(attrs) :
            attrs[i].name = result.args[1] =>
              (result.out.kind = "return" /\ result.out.value = attrs[i].value)
       /\ graph = built
       /\ result.self \in Mimics(proxy)
  /\ result.op = "ncattrs" =>
       /\ result.out.value = AttrNamesOf(graph.attributes[result.self.ncobj.id])
       /\ graph = built
       /\ result.self \in Mimics(proxy)

\* C7 witness: getncattr on a dataset mimic returned the second attribute of
\* its group.
C7_Witness ==
  /\ result.op = "getncattr"
  /\ result.self.cls = "Nc4DatasetMimic"
  /\ Len(graph.attributes[result.self.ncobj.id]) = 2
  /\ graph.attributes[result.self.ncobj.id][2].name = result.args[1]
  /\ result.out.kind = "return"

\* C8: a property read of a name that is no member of the mimic has the
\* outcome of getncattr of that name: the stored value when the node has
\* the attribute, AttributeError when it has not.  No constructor fails
\* with AttributeError, and a lookup changes neither mimic nor graph.
C8_PropertyFallback ==
  /\ (result.op = "getattr" /\ result.args[1] \notin Members(result.self)) =>
       /\ result.out = SpecLookup(graph, result.self.ncobj.id, result.args[1])
       /\ graph = built
       /\ result.self \in Mimics(proxy)
  /\ result.op \in {"GroupMimic", "Nc4DatasetMimic",
                    "fake_readable_nc4python_dataset",
                    "fake_writeable_nc4python_dataset"} =>
       (result.out.kind = "raise" => result.out.value # "AttributeError")

\* C8 witness: a property read of a name that is neither member nor
\* attribute failed with AttributeError.
C8_Witness ==
  /\ result.op = "getattr"
  /\ result.args[1] \notin Members(result.self)
  /\ result.out = Raise("AttributeError")
  /\ proxy # None

\* C9: in a write-mode close() the file handle is acquired and released
\* within close() on every exit path, a failure is the file library's or
\* the encoder's own, and the encoder is invoked at most once.
C9_WriteCloseScopedHandle ==
  (result.op = "close" /\ CharIn("w", result.self._file_mode)) =>
    /\ result.out.kind = "raise" => result.out.value \in {"IOError", "EncoderError"}
    /\ result.out # Raise("IOError") =>
         /\ Len(EventsOf(result.events, "open")) = 1
         /\ Len(EventsOf(result.events, "close")) = 1
         /\ result.events[Len(result.events)].ev = "close"
    /\ Len(EventsOf(result.events, "ncobj_write")) <= 1

\* What a group mimic and the mimics below it read, against heap h: the
\* keys of the mappings, and every dimension's size and unlimited flag and
\* every node's attributes as read now.
ReadsAsIn(h) ==
  /\ \A q \in GroupMimicsOf(proxy) : KeysAre(q, built)
  /\ \A p \in Mimics(proxy) :
       /\ p.cls = "DimensionMimic" =>
            /\ size(graph, p) = SpecSize(h, p.ncobj.id)
            /\ isunlimited(graph, p) = SpecUnlimited(h, p.ncobj.id)
       /\ HasGetattr(p) =>
            /\ ncattrs(graph, p) = AttrNamesOf(h.attributes[p.ncobj.id])
            /\ \A n \in AttrNames :
                 getncattr(graph, p, n) = SpecLookup(h, p.ncobj.id, n)

\* C10 as stated: after any mutations of the wrapped graph, every read
\* through a group mimic gives what it gave right after construction.
C10_ReadsAreSnapshots ==
  proxy.cls = "GroupMimic" => ReadsAsIn(built)

\* C10 as amended: after any mutations of the wrapped graph, the keys and
\* order of `dimensions`, `variables` and `groups` are those of the graph at
\* construction, while size, isunlimited, ncattrs and getncattr give the
\* wrapped node's current length, unlimited flag and attributes.
C10_KeysSnapshotReadsLive ==
  (proxy.cls = "GroupMimic" /\ graph # built) => ReadsAsIn(graph)

\* C10 witness: since the mimic was constructed, the group's dimensions
\* have changed and a wrapped dimension's size has changed.
C10_Witness ==
  /\ proxy.cls = "GroupMimic"
  /\ graph.dimensions[proxy.ncobj.id] # built.dimensions[proxy.ncobj.id]
  /\ \E p \in Mimics(proxy) :
       /\ p.cls = "DimensionMimic"
       /\ SpecSize(graph, p.ncobj.id) # SpecSize(built, p.ncobj.id)

====
